---- MODULE Spec2Model ----
(***************************************************************************)
(* Highlight detection and clip-window synthesis of clippy-ai-agent:       *)
(* ContentAnalyzer (src/src/core/content_analyzer.py) and LLMAnalyzer      *)
(* (src/src/ai/llm_analyzer.py).                                           *)
(*                                                                         *)
(* Units.  Times are held in half seconds (Sec(25) is 25 s), so that the   *)
(* halved deficit / excess of _parse_llm_response stays an integer for     *)
(* transcripts whose segment boundaries are whole seconds.  Scores are     *)
(* held in thousandths (2.0 is 2000).  Confidences are held in 1/3000      *)
(* (ConfOne is 1.0), so that score / 3.0 and the products of               *)
(* _rank_highlights are exact.  Arithmetic is exact rational arithmetic;   *)
(* the rounding of Python floats is not modelled.                          *)
(***************************************************************************)
EXTENDS Integers, Sequences, FiniteSets, TLC

VARIABLES
    pc,            \* position of find_highlights / of the component under check
    segments,      \* transcript['segments']
    modelLoaded,   \* LLMAnalyzer.model is not None
    hashtagCfg,    \* config "hashtags": [min_count, max_count]
    analysisCfg,   \* what the configuration asks of the filter
    firstMerge,    \* output of an earlier run of _combine_analyses on the same input
    scored,        \* scored_segments
    chunks,        \* chunks of _split_transcript still to analyze
    chunkLog,      \* per analyzed chunk: what the model answered and what it gave
    rawLLM,        \* highlights accumulated by analyze_content
    llm,           \* llm_highlights handed to _combine_analyses
    combined,      \* the list `combined` of _combine_analyses
    semIdx,        \* index of the next llm highlight to merge
    filtered,      \* filtered_highlights
    enriched,      \* the list `enriched` of _enrich_highlights
    result,        \* what find_highlights returned
    outcome,       \* "running", "returned" or "raised"
    errorLogged    \* find_highlights logged "Error analyzing content"

vars == <<pc, segments, modelLoaded, hashtagCfg, analysisCfg, firstMerge, scored, chunks, chunkLog, rawLLM,
          llm, combined, semIdx, filtered, enriched, result, outcome, errorLogged>>

----------------------------------------------------------------------------
(* Bounds of the model *)

MaxSegs == 3
MaxLLMHighlights == 1
MaxFilterLen == 6

(* Program constants *)

ClipDurationMin == 25
ClipDurationMax == 65
MinEngagementScore == 600
ConfOne == 3000
ProximitySeconds == 10
MaxHighlights == 5
MinConfidence == 900
ChunkSize == 1000
ChunkOverlap == 200
RankTop == 5
FallbackTop == 3
FallbackThreshold == 4
HashtagMinDefault == 5
HashtagMaxDefault == 10

Sec(s) == 2 * s

Min2(a, b) == IF a <= b THEN a ELSE b
Max2(a, b) == IF a >= b THEN a ELSE b
Abs(a) == IF a >= 0 THEN a ELSE 0 - a

RECURSIVE SeqSum(_)
SeqSum(s) == IF s = <<>> THEN 0 ELSE Head(s) + SeqSum(Tail(s))

SeqToSet(s) == {s[i] : i \in 1..Len(s)}

Prefix(s, n) == SubSeq(s, 1, Min2(n, Len(s)))

----------------------------------------------------------------------------
(* Transcript texts.  A text is known to the analysis only through what    *)
(* the keyword lists, hook patterns and searches of the source find in it; *)
(* each entry below is the result of applying those searches to the        *)
(* literal text named in its comment.                                      *)

Emotions == <<"funny", "shocking", "inspirational", "educational", "controversial">>

NoEmo == [e \in SeqToSet(Emotions) |-> 0]

TextInfo ==
    [ \* "intro"
      intro |-> [kw |-> NoEmo, hooks |-> 0, boosts |-> 0, nwords |-> 1, chars |-> 5,
                 fb |-> <<>>, question |-> FALSE, pronoun |-> FALSE, superl |-> FALSE,
                 topics |-> {}, words |-> {"intro"}],
      \* "you won't believe this secret nobody tells you"
      hook  |-> [kw |-> NoEmo, hooks |-> 2, boosts |-> 0, nwords |-> 8, chars |-> 46,
                 fb |-> <<>>, question |-> FALSE, pronoun |-> FALSE, superl |-> FALSE,
                 topics |-> {},
                 words |-> {"you", "won't", "believe", "this", "secret", "nobody", "tells"}],
      \* "that joke was so funny i could not stop"
      joke  |-> [kw |-> [NoEmo EXCEPT !["funny"] = 2], hooks |-> 0, boosts |-> 0,
                 nwords |-> 9, chars |-> 39,
                 fb |-> <<"funny">>, question |-> FALSE, pronoun |-> TRUE, superl |-> FALSE,
                 topics |-> {},
                 words |-> {"that", "joke", "was", "so", "funny", "i", "could", "not", "stop"}],
      \* "unbelievable funny success best thing i saw?"
      max   |-> [kw |-> [NoEmo EXCEPT !["funny"] = 1, !["shocking"] = 1,
                                      !["inspirational"] = 1],
                 hooks |-> 0, boosts |-> 0, nwords |-> 7, chars |-> 44,
                 fb |-> <<"shocking", "funny", "inspirational">>,
                 question |-> TRUE, pronoun |-> TRUE, superl |-> TRUE,
                 topics |-> {"#success"},
                 words |-> {"unbelievable", "funny", "success", "best", "thing", "i", "saw?"}],
      \* 990 characters of "lorem ipsum dolor sit amet ..."
      filler |-> [kw |-> NoEmo, hooks |-> 0, boosts |-> 0, nwords |-> 183, chars |-> 990,
                 fb |-> <<>>, question |-> FALSE, pronoun |-> FALSE, superl |-> FALSE,
                 topics |-> {}, words |-> {"lorem", "ipsum", "dolor", "sit", "amet"}],
      \* "what is the best part?"
      ask   |-> [kw |-> NoEmo, hooks |-> 0, boosts |-> 0, nwords |-> 5, chars |-> 22,
                 fb |-> <<>>, question |-> TRUE, pronoun |-> FALSE, superl |-> TRUE,
                 topics |-> {}, words |-> {"what", "is", "the", "best", "part?"}],
      \* "is this my best part?"
      askme |-> [kw |-> NoEmo, hooks |-> 0, boosts |-> 0, nwords |-> 5, chars |-> 21,
                 fb |-> <<>>, question |-> TRUE, pronoun |-> TRUE, superl |-> TRUE,
                 topics |-> {}, words |-> {"is", "this", "my", "best", "part?"}] ]

Text(seg) == TextInfo[seg.text]

----------------------------------------------------------------------------
(* ContentAnalyzer._score_segments *)

EmotionWeight == 1000
HookWeight == 2000
BoostWeight == 1500

\* emotions with at least one keyword in the text, in the order of emotion_keywords
RECURSIVE EmotionsFrom(_, _)
EmotionsFrom(kw, k) ==
    IF k > Len(Emotions) THEN <<>>
    ELSE (IF kw[Emotions[k]] > 0 THEN <<Emotions[k]>> ELSE <<>>) \o EmotionsFrom(kw, k + 1)

LengthFactor(nwords) == IF nwords < 5 THEN 5 ELSE IF nwords > 100 THEN 7 ELSE 10

\* i is the 1-based position; the source's index is i - 1 and n is len(segments)
PositionFactor(i, n) ==
    IF 10 * (i - 1) < n THEN 12
    ELSE IF 10 * (i - 1) > 9 * n THEN 11
    ELSE 10

\* a scorer that adds the position bonus instead of scaling by it
ScoreSegmentAddsBonus(segs, i) ==
    LET t == Text(segs[i])
        base == SeqSum([k \in 1..Len(Emotions) |-> t.kw[Emotions[k]] * EmotionWeight])
                + t.hooks * HookWeight + t.boosts * BoostWeight
    IN [segment_index |-> i,
        start_time |-> segs[i].start,
        end_time |-> segs[i].end,
        score |-> (base * LengthFactor(t.nwords)) \div 10
                  + (PositionFactor(i, Len(segs)) - 10) * 100,
        emotions |-> EmotionsFrom(t.kw, 1),
        duration |-> segs[i].end - segs[i].start]

ScoreSegment(segs, i) ==
    LET t == Text(segs[i])
        base == SeqSum([k \in 1..Len(Emotions) |-> t.kw[Emotions[k]] * EmotionWeight])
                + t.hooks * HookWeight + t.boosts * BoostWeight
    IN [segment_index |-> i,
        start_time |-> segs[i].start,
        end_time |-> segs[i].end,
        score |-> (base * LengthFactor(t.nwords) * PositionFactor(i, Len(segs))) \div 100,
        emotions |-> EmotionsFrom(t.kw, 1),
        duration |-> segs[i].end - segs[i].start]

ScoreSegments(segs) == [i \in 1..Len(segs) |-> ScoreSegment(segs, i)]

----------------------------------------------------------------------------
(* ContentAnalyzer._combine_analyses, first loop: rule-based windows *)

SpanDuration(segs, s, e) == segs[e].end - segs[s].start

\* an extension that goes on until the maximum duration is reached
RECURSIVE ExtendForwardToMax(_, _, _, _)
ExtendForwardToMax(segs, s, e, total) ==
    IF e < Len(segs) /\ total < Sec(ClipDurationMax)
    THEN ExtendForwardToMax(segs, s, e + 1, SpanDuration(segs, s, e + 1))
    ELSE e

\* "Extend forward if needed": returns the new end index
RECURSIVE ExtendForward(_, _, _, _)
ExtendForward(segs, s, e, total) ==
    IF e < Len(segs) /\ total < Sec(ClipDurationMin)
    THEN ExtendForward(segs, s, e + 1, SpanDuration(segs, s, e + 1))
    ELSE e

\* "Extend backward if still too short": returns the new start index
RECURSIVE ExtendBackward(_, _, _, _)
ExtendBackward(segs, s, e, total) ==
    IF s > 1 /\ total < Sec(ClipDurationMin)
    THEN ExtendBackward(segs, s - 1, e, SpanDuration(segs, s - 1, e))
    ELSE s

\* "Trim if too long": returns the new end index
RECURSIVE TrimEnd(_, _, _, _)
TrimEnd(segs, s, e, total) ==
    IF total > Sec(ClipDurationMax) /\ e > s
    THEN TrimEnd(segs, s, e - 1, SpanDuration(segs, s, e - 1))
    ELSE e

RuleWindow(segs, sc) ==
    LET i  == sc.segment_index
        e1 == ExtendForward(segs, i, i, sc.duration)
        t1 == IF e1 = i THEN sc.duration ELSE SpanDuration(segs, i, e1)
        s1 == ExtendBackward(segs, i, e1, t1)
        t2 == IF s1 = i THEN t1 ELSE SpanDuration(segs, s1, e1)
        e2 == TrimEnd(segs, s1, e1, t2)
    IN [s |-> s1, e |-> e2]

Range(a, b) == [k \in 1..(b - a + 1) |-> a + k - 1]

RuleHighlight(segs, sc) ==
    LET w == RuleWindow(segs, sc)
    IN [start_time |-> segs[w.s].start,
        end_time |-> segs[w.e].end,
        text |-> Range(w.s, w.e),
        confidence |-> Min2(sc.score, ConfOne),
        emotions |-> sc.emotions,
        hasEmotions |-> TRUE,
        source |-> "rule_based",
        title |-> "",
        emotion |-> "",
        viral_potential |-> ""]

RECURSIVE RuleHighlights(_, _, _)
RuleHighlights(segs, sco, k) ==
    IF k > Len(sco) THEN <<>>
    ELSE (IF sco[k].score >= MinEngagementScore
          THEN <<RuleHighlight(segs, sco[k])>> ELSE <<>>)
         \o RuleHighlights(segs, sco, k + 1)

----------------------------------------------------------------------------
(* ContentAnalyzer._combine_analyses, second loop: merging llm highlights *)

SameMoment(h, existing) ==
    \/ Abs(h.start_time - existing.start_time) < Sec(ProximitySeconds)
    \/ Abs(h.end_time - existing.end_time) < Sec(ProximitySeconds)

\* index of the first entry of comb the loop breaks at, 0 when there is none
FirstMatch(comb, h) ==
    IF \E j \in 1..Len(comb) : SameMoment(h, comb[j])
    THEN CHOOSE j \in 1..Len(comb) :
            /\ SameMoment(h, comb[j])
            /\ \A k \in 1..(j - 1) : ~SameMoment(h, comb[k])
    ELSE 0

\* existing.update(llm_highlight); existing['source'] = 'combined'
UpdateExisting(existing, h) ==
    [start_time |-> h.start_time,
     end_time |-> h.end_time,
     text |-> h.text,
     confidence |-> h.confidence,
     emotions |-> IF h.hasEmotions THEN h.emotions ELSE existing.emotions,
     hasEmotions |-> h.hasEmotions \/ existing.hasEmotions,
     source |-> "combined",
     title |-> IF h.title # "" THEN h.title ELSE existing.title,
     emotion |-> h.emotion,
     viral_potential |-> IF h.viral_potential # "" THEN h.viral_potential
                         ELSE existing.viral_potential]

\* the loop without its break: every matching entry of lower confidence is
\* replaced
MergeOneNoBreak(comb, h) ==
    IF FirstMatch(comb, h) = 0 THEN Append(comb, [h EXCEPT !.source = "llm"])
    ELSE [j \in 1..Len(comb) |->
             IF SameMoment(h, comb[j]) /\ h.confidence > comb[j].confidence
             THEN UpdateExisting(comb[j], h) ELSE comb[j]]

\* a merge that looks for the matching entry in an unordered collection:
\* which matching entry it meets first differs from one run to the next
MergeOneUnordered(comb, h) ==
    LET matches == {j \in 1..Len(comb) : SameMoment(h, comb[j])}
        j == IF matches = {} THEN 0
             ELSE IF firstMerge.done
                  THEN CHOOSE m \in matches : \A o \in matches : o <= m
                  ELSE CHOOSE m \in matches : \A o \in matches : m <= o
    IN IF j = 0 THEN Append(comb, [h EXCEPT !.source = "llm"])
       ELSE IF h.confidence > comb[j].confidence
            THEN [comb EXCEPT ![j] = UpdateExisting(comb[j], h)]
            ELSE comb

\* a merge in which the candidate also wins a tie
MergeOneTakesEqual(comb, h) ==
    LET j == FirstMatch(comb, h)
    IN IF j = 0 THEN Append(comb, [h EXCEPT !.source = "llm"])
       ELSE IF h.confidence >= comb[j].confidence
            THEN [comb EXCEPT ![j] = UpdateExisting(comb[j], h)]
            ELSE comb

\* a merge in which the candidate replaces the entry it matches whatever
\* the confidences
MergeOneAlwaysReplaces(comb, h) ==
    LET j == FirstMatch(comb, h)
    IN IF j = 0 THEN Append(comb, [h EXCEPT !.source = "llm"])
       ELSE [comb EXCEPT ![j] = UpdateExisting(comb[j], h)]

MergeOne(comb, h) ==
    LET j == FirstMatch(comb, h)
    IN IF j = 0 THEN Append(comb, [h EXCEPT !.source = "llm"])
       ELSE IF h.confidence > comb[j].confidence
            THEN [comb EXCEPT ![j] = UpdateExisting(comb[j], h)]
            ELSE comb

----------------------------------------------------------------------------
(* ContentAnalyzer._filter_highlights *)

\* position at which h goes into the descending list s: after every entry
\* whose confidence is not lower (list.sort is stable, also with reverse=True)
RECURSIVE InsertByConfidence(_, _)
InsertByConfidence(s, h) ==
    IF s = <<>> THEN <<h>>
    ELSE IF Head(s).confidence >= h.confidence
         THEN <<Head(s)>> \o InsertByConfidence(Tail(s), h)
         ELSE <<h>> \o s

RECURSIVE SortFrom(_, _, _)
SortFrom(L, k, acc) ==
    IF k > Len(L) THEN acc ELSE SortFrom(L, k + 1, InsertByConfidence(acc, L[k]))

\* a sort that is not stable: entries of equal confidence end up reversed
RECURSIVE InsertBeforeEqual(_, _)
InsertBeforeEqual(s, h) ==
    IF s = <<>> THEN <<h>>
    ELSE IF Head(s).confidence > h.confidence
         THEN <<Head(s)>> \o InsertBeforeEqual(Tail(s), h)
         ELSE <<h>> \o s

RECURSIVE SortFromUnstable(_, _, _)
SortFromUnstable(L, k, acc) ==
    IF k > Len(L) THEN acc ELSE SortFromUnstable(L, k + 1, InsertBeforeEqual(acc, L[k]))

SortByConfidenceUnstable(L) == SortFromUnstable(L, 1, <<>>)

\* a sort without reverse=True: lowest confidence first
RECURSIVE InsertAscending(_, _)
InsertAscending(s, h) ==
    IF s = <<>> THEN <<h>>
    ELSE IF Head(s).confidence <= h.confidence
         THEN <<Head(s)>> \o InsertAscending(Tail(s), h)
         ELSE <<h>> \o s

RECURSIVE SortFromAscending(_, _, _)
SortFromAscending(L, k, acc) ==
    IF k > Len(L) THEN acc ELSE SortFromAscending(L, k + 1, InsertAscending(acc, L[k]))

SortByConfidenceAscending(L) == SortFromAscending(L, 1, <<>>)

SortByConfidence(L) == SortFrom(L, 1, <<>>)

OverlapDuration(h, existing) ==
    Max2(0, Min2(h.end_time, existing.end_time) - Max2(h.start_time, existing.start_time))

\* overlap_ratio = overlap_duration / highlight_duration;  overlap_ratio > 0.5
OverlapTooLarge(h, existing) ==
    LET d == h.end_time - h.start_time
    IN IF d > 0 THEN 2 * OverlapDuration(h, existing) > d ELSE FALSE

\* the division raises ZeroDivisionError when the highlight is empty and
\* there is an accepted highlight to compare it with
DivisionRaises(h, acc) == acc # <<>> /\ h.end_time = h.start_time

OverlapFound(h, acc) == \E j \in 1..Len(acc) : OverlapTooLarge(h, acc[j])

RECURSIVE WalkSorted(_, _, _)
WalkSorted(L, k, acc) ==
    IF k > Len(L) THEN [raised |-> FALSE, out |-> acc]
    ELSE IF DivisionRaises(L[k], acc) THEN [raised |-> TRUE, out |-> <<>>]
    ELSE WalkSorted(L, k + 1, IF OverlapFound(L[k], acc) THEN acc ELSE Append(acc, L[k]))

AboveFloor(s) == SelectSeq(s, LAMBDA h : h.confidence >= MinConfidence)

\* the filter without "filtered = filtered[:max_highlights]"
FilterHighlightsNoLimit(L) ==
    LET w == WalkSorted(SortByConfidence(L), 1, <<>>)
    IN [raised |-> w.raised, out |-> IF w.raised THEN <<>> ELSE AboveFloor(w.out)]

FilterHighlights(L) ==
    LET w == WalkSorted(SortByConfidence(L), 1, <<>>)
    IN [raised |-> w.raised,
        out |-> IF w.raised THEN <<>> ELSE AboveFloor(Prefix(w.out, MaxHighlights))]


----------------------------------------------------------------------------
(* LLMAnalyzer._split_transcript.  A chunk's text is known by its length. *)

NewChunk == [segs |-> <<>>, start_time |-> 0, end_time |-> 0, chars |-> 0]

RECURSIVE SplitFrom(_, _, _, _)
SplitFrom(segs, k, cur, done) ==
    IF k > Len(segs)
    THEN (IF cur.chars > 0 THEN Append(done, cur) ELSE done)
    ELSE LET n == Text(segs[k]).chars IN
         IF cur.chars + n > ChunkSize /\ cur.chars > 0
         THEN SplitFrom(segs, k + 1,
                        [segs |-> <<k>>,
                         start_time |-> segs[k].start,
                         end_time |-> segs[k].end,
                         chars |-> Min2(cur.chars, ChunkOverlap) + 1 + n],
                        Append(done,
                               [cur EXCEPT !.end_time =
                                   IF cur.segs # <<>> THEN segs[cur.segs[Len(cur.segs)]].end
                                   ELSE 0]))
         ELSE SplitFrom(segs, k + 1,
                        [segs |-> Append(cur.segs, k),
                         start_time |-> IF cur.segs = <<>> THEN segs[k].start
                                        ELSE cur.start_time,
                         end_time |-> segs[k].end,
                         chars |-> cur.chars + 1 + n],
                        done)

\* a split that leaves out "Add final chunk"
SplitTranscriptNoFinal(segs) ==
    LET cs == SplitFrom(segs, 1, NewChunk, <<>>)
    IN SubSeq(cs, 1, Len(cs) - 1)

SplitTranscript(segs) == SplitFrom(segs, 1, NewChunk, <<>>)

----------------------------------------------------------------------------
(* LLMAnalyzer._fallback_analysis; the score is held in tenths *)

FallbackScore(t) ==
    3 * Len(t.fb) + (IF t.question THEN 2 ELSE 0) + (IF t.pronoun THEN 1 ELSE 0)
    + (IF t.superl THEN 2 ELSE 0)

FallbackHighlight(segs, i) ==
    LET t == Text(segs[i])
        s == Max2(1, i - 1)
        e == Min2(Len(segs), i + 2)
    IN [start_time |-> segs[s].start,
        end_time |-> segs[e].end,
        text |-> Range(s, e),
        confidence |-> FallbackScore(t) * (ConfOne \div 10),
        emotions |-> t.fb,
        hasEmotions |-> TRUE,
        source |-> "",
        title |-> "",
        emotion |-> IF t.fb # <<>> THEN t.fb[1] ELSE "neutral",
        viral_potential |-> ""]

RECURSIVE FallbackFrom(_, _)
FallbackFrom(segs, i) ==
    IF i > Len(segs) THEN <<>>
    ELSE (IF FallbackScore(Text(segs[i])) >= FallbackThreshold
          THEN <<FallbackHighlight(segs, i)>> ELSE <<>>)
         \o FallbackFrom(segs, i + 1)

FallbackAnalysis(segs) == Prefix(FallbackFrom(segs, 1), FallbackTop)


----------------------------------------------------------------------------
(* LLMAnalyzer._find_matching_segments.  A quote is the set of its words;  *)
(* no word of the texts above is part of another word, so a segment holds  *)
(* a quote, or one of its words, exactly when it shares a word with it.    *)

QuoteMatches(quote, seg) == quote \cap Text(seg).words # {}

\* the two nested loops: segments in the order the quotes find them
RECURSIVE MatchesInQuoteOrder(_, _, _, _, _)
MatchesInQuoteOrder(quotes, segs, cs, q, acc) ==
    IF q > Len(quotes) THEN acc
    ELSE LET hit == SelectSeq(cs, LAMBDA i :
                        QuoteMatches(quotes[q], segs[i]) /\ i \notin SeqToSet(acc))
         IN MatchesInQuoteOrder(quotes, segs, cs, q + 1, acc \o hit)

\* matching_segments.sort(key=start), stable
RECURSIVE InsertByStart(_, _, _)
InsertByStart(segs, s, i) ==
    IF s = <<>> THEN <<i>>
    ELSE IF segs[Head(s)].start <= segs[i].start
         THEN <<Head(s)>> \o InsertByStart(segs, Tail(s), i)
         ELSE <<i>> \o s

RECURSIVE SortByStart(_, _, _, _)
SortByStart(segs, L, k, acc) ==
    IF k > Len(L) THEN acc ELSE SortByStart(segs, L, k + 1, InsertByStart(segs, acc, L[k]))

WordOverlap(quotes, seg) ==
    Cardinality(UNION {quotes[q] : q \in 1..Len(quotes)} \cap Text(seg).words)

\* segment_scores.sort(key=overlap, reverse=True), stable
RECURSIVE InsertByOverlap(_, _, _, _)
InsertByOverlap(quotes, segs, s, i) ==
    IF s = <<>> THEN <<i>>
    ELSE IF WordOverlap(quotes, segs[Head(s)]) >= WordOverlap(quotes, segs[i])
         THEN <<Head(s)>> \o InsertByOverlap(quotes, segs, Tail(s), i)
         ELSE <<i>> \o s

RECURSIVE SortByOverlap(_, _, _, _, _)
SortByOverlap(quotes, segs, L, k, acc) ==
    IF k > Len(L) THEN acc
    ELSE SortByOverlap(quotes, segs, L, k + 1, InsertByOverlap(quotes, segs, acc, L[k]))

FindMatchingSegments(quotes, segs, cs) ==
    IF quotes = <<>> THEN Prefix(cs, 3)
    ELSE LET m == SortByStart(segs, MatchesInQuoteOrder(quotes, segs, cs, 1, <<>>), 1, <<>>)
         IN IF m # <<>> THEN m
            ELSE SelectSeq(Prefix(SortByOverlap(quotes, segs, cs, 1, <<>>), 3),
                           LAMBDA i : WordOverlap(quotes, segs[i]) > 0)

----------------------------------------------------------------------------
(* LLMAnalyzer._parse_llm_response: one entry of data['highlights'] *)

DefaultEngagement == 5

\* the resolution with the signs of the extension slipped: a short window is
\* moved inward instead of outward
ResolveWindowInward(start, end, chunk) ==
    LET duration == end - start
        needed == Sec(ClipDurationMin) - duration
        excess == duration - Sec(ClipDurationMax)
    IN IF duration < Sec(ClipDurationMin)
       THEN [start_time |-> Max2(chunk.start_time, start + needed \div 2),
             end_time |-> Min2(chunk.end_time, end - needed \div 2)]
       ELSE IF duration > Sec(ClipDurationMax)
       THEN [start_time |-> start + excess \div 2, end_time |-> end - excess \div 2]
       ELSE [start_time |-> start, end_time |-> end]

\* the resolution without the clamp to the chunk's boundaries
ResolveWindowUnclamped(start, end, chunk) ==
    LET duration == end - start
        needed == Sec(ClipDurationMin) - duration
        excess == duration - Sec(ClipDurationMax)
    IN IF duration < Sec(ClipDurationMin)
       THEN [start_time |-> start - needed \div 2, end_time |-> end + needed \div 2]
       ELSE IF duration > Sec(ClipDurationMax)
       THEN [start_time |-> start + excess \div 2, end_time |-> end - excess \div 2]
       ELSE [start_time |-> start, end_time |-> end]

\* "Ensure clip duration is within limits"
ResolveWindow(start, end, chunk) ==
    LET duration == end - start
        needed == Sec(ClipDurationMin) - duration
        excess == duration - Sec(ClipDurationMax)
    IN IF duration < Sec(ClipDurationMin)
       THEN [start_time |-> Max2(chunk.start_time, start - needed \div 2),
             end_time |-> Min2(chunk.end_time, end + needed \div 2)]
       ELSE IF duration > Sec(ClipDurationMax)
       THEN [start_time |-> start + excess \div 2, end_time |-> end - excess \div 2]
       ELSE [start_time |-> start, end_time |-> end]

\* engagement_score is held in tenths; a confidence of 1.0 is ConfOne
ConvertHighlight(raw, segs, chunk) ==
    LET m == FindMatchingSegments(raw.key_quotes, segs, chunk.segs)
        w == ResolveWindow(segs[m[1]].start, segs[m[Len(m)]].end, chunk)
    IN IF m = <<>> THEN <<>>
       ELSE << [start_time |-> w.start_time,
                end_time |-> w.end_time,
                text |-> m,
                confidence |-> raw.engagement_score * (ConfOne \div 10),
                emotions |-> <<>>,
                hasEmotions |-> FALSE,
                source |-> "",
                title |-> raw.title,
                emotion |-> raw.emotion,
                viral_potential |-> raw.viral_potential] >>

RECURSIVE ConvertAll(_, _, _, _)
ConvertAll(raws, segs, chunk, k) ==
    IF k > Len(raws) THEN <<>>
    ELSE ConvertHighlight(raws[k], segs, chunk) \o ConvertAll(raws, segs, chunk, k + 1)

\* answer.kind: "nojson" (no {...} in the response), "badjson" (json.loads
\* raises), "json" (a parsed object with its 'highlights')
\* a parser that turns to the fallback analysis when it finds no JSON
ParseOrFallback(answer, segs, chunk) ==
    IF answer.kind = "json" THEN ConvertAll(answer.highlights, segs, chunk, 1)
    ELSE FallbackAnalysis(segs)

ParseLLMResponse(answer, segs, chunk) ==
    IF answer.kind = "json" THEN ConvertAll(answer.highlights, segs, chunk, 1) ELSE <<>>

----------------------------------------------------------------------------
(* LLMAnalyzer._rank_highlights *)

ViralFactor(vp) == IF vp = "high" THEN 13 ELSE IF vp = "low" THEN 8 ELSE 10

EmotionBoost(e) ==
    IF e = "funny" THEN 12
    ELSE IF e = "shocking" THEN 11
    ELSE IF e = "inspirational" THEN 10
    ELSE IF e = "controversial" THEN 11
    ELSE IF e = "educational" THEN 9
    ELSE 10

RankedConfidence(h) ==
    Min2((h.confidence * ViralFactor(h.viral_potential) * EmotionBoost(h.emotion)) \div 100,
         ConfOne)

\* a ranking that returns the best candidate only
RankHighlightsBestOnly(hs) ==
    Prefix(SortByConfidence([k \in 1..Len(hs) |->
                                [hs[k] EXCEPT !.confidence = RankedConfidence(hs[k])]]),
           1)

RankHighlights(hs) ==
    Prefix(SortByConfidence([k \in 1..Len(hs) |->
                                [hs[k] EXCEPT !.confidence = RankedConfidence(hs[k])]]),
           RankTop)

----------------------------------------------------------------------------
(* ContentAnalyzer._generate_hashtags, _get_primary_emotion, _generate_title *)

BaseTags == <<"#viral", "#trending", "#fyp">>

EmotionTags(e) ==
    IF e = "funny" THEN <<"#comedy", "#humor", "#laugh">>
    ELSE IF e = "shocking" THEN <<"#mindblown", "#incredible", "#wow">>
    ELSE IF e = "inspirational" THEN <<"#motivation", "#inspiration", "#success">>
    ELSE IF e = "educational" THEN <<"#learning", "#facts", "#knowledge">>
    ELSE IF e = "controversial" THEN <<"#debate", "#opinion", "#discussion">>
    ELSE <<>>

\* the values of topic_keywords, in the order of the dictionary
TopicOrder == <<"#business", "#money", "#success", "#health", "#fitness", "#food",
                "#tech", "#ai", "#science", "#travel", "#lifestyle", "#tips">>

GenericTags == <<"#content", "#video", "#shorts", "#reels", "#tiktok">>

\* topic tags whose keyword occurs in the text joined from the segments of h
TopicsOf(segs, h) ==
    SelectSeq(TopicOrder, LAMBDA tag : \E k \in 1..Len(h.text) : tag \in Text(segs[h.text[k]]).topics)

RECURSIVE FlattenEmotionTags(_, _)
FlattenEmotionTags(emotions, k) ==
    IF k > Len(emotions) THEN <<>>
    ELSE EmotionTags(emotions[k]) \o FlattenEmotionTags(emotions, k + 1)

\* list(dict.fromkeys(hashtags))
RECURSIVE Dedupe(_, _)
Dedupe(s, acc) ==
    IF s = <<>> THEN acc
    ELSE Dedupe(Tail(s), IF Head(s) \in SeqToSet(acc) THEN acc ELSE Append(acc, Head(s)))

RECURSIVE PadGeneric(_, _, _)
PadGeneric(tags, k, minCount) ==
    IF k > Len(GenericTags) THEN tags
    ELSE PadGeneric(IF GenericTags[k] \notin SeqToSet(tags) /\ Len(tags) < minCount
                    THEN Append(tags, GenericTags[k]) ELSE tags,
                    k + 1, minCount)

GenerateHashtags(segs, h, cfg) ==
    LET tags == Dedupe(BaseTags \o FlattenEmotionTags(h.emotions, 1) \o TopicsOf(segs, h), <<>>)
    IN IF Len(tags) > cfg.max_count THEN SubSeq(tags, 1, cfg.max_count)
       ELSE IF Len(tags) < cfg.min_count THEN PadGeneric(tags, 1, cfg.min_count)
       ELSE tags

EmotionPriority == <<"funny", "shocking", "inspirational", "controversial", "educational">>

GetPrimaryEmotion(emotions) ==
    IF emotions = <<>> THEN "neutral"
    ELSE LET hit == SelectSeq(EmotionPriority, LAMBDA e : e \in SeqToSet(emotions))
         IN IF hit # <<>> THEN hit[1] ELSE emotions[1]

\* the bank random.choice draws from; which of its four titles is drawn is
\* not distinguished
TemplateBank(emotions) ==
    IF "funny" \in SeqToSet(emotions) THEN "template:funny"
    ELSE IF "shocking" \in SeqToSet(emotions) THEN "template:shocking"
    ELSE IF "inspirational" \in SeqToSet(emotions) THEN "template:inspirational"
    ELSE "template:generic"

\* words of the joined text up to its first '?', 0 when it has none
RECURSIVE QuestionWords(_, _, _, _)
QuestionWords(segs, h, k, before) ==
    IF k > Len(h.text) THEN 0
    ELSE LET t == Text(segs[h.text[k]])
         IN IF t.question THEN before + t.nwords
            ELSE QuestionWords(segs, h, k + 1, before + t.nwords)

\* boost_keywords is empty, so no "The ... Secret" title; every '?' of the
\* texts above ends its text
GenerateTitle(segs, h) ==
    LET q == QuestionWords(segs, h, 1, 0)
    IN IF q > 0 /\ q <= 8 THEN "question" ELSE TemplateBank(h.emotions)

\* the try body of the loop of _enrich_highlights
EnrichOne(segs, h, i, cfg) ==
    [highlight |-> h,
     title |-> GenerateTitle(segs, h),
     description |-> "text[:147]... From: title",
     hashtags |-> GenerateHashtags(segs, h, cfg),
     emotion |-> GetPrimaryEmotion(h.emotions),
     engagement_score |-> h.confidence,
     clip_number |-> i]

\* the except branch numbering the clips from 0, as enumerate does
EnrichBasicFromZero(h, i) ==
    [highlight |-> h,
     title |-> "Viral Moment i",
     description |-> "text[:100]...",
     hashtags |-> <<"#viral", "#trending">>,
     emotion |-> "neutral",
     engagement_score |-> h.confidence,
     clip_number |-> i - 1]

\* the except branch: "Add basic version"
EnrichBasic(h, i) ==
    [highlight |-> h,
     title |-> "Viral Moment i",
     description |-> "text[:100]...",
     hashtags |-> <<"#viral", "#trending">>,
     emotion |-> "neutral",
     engagement_score |-> h.confidence,
     clip_number |-> i]


----------------------------------------------------------------------------
(* Inputs *)

\* a segment of the transcript: its duration in seconds and its text
SegKinds ==
    { [dur |-> 5,  text |-> "intro"],
      [dur |-> 35, text |-> "hook"],
      [dur |-> 20, text |-> "joke"],
      [dur |-> 70, text |-> "max"] }

\* segments laid end to end from 0: ordered and non-overlapping
RECURSIVE BuildSegments(_, _, _)
BuildSegments(kinds, k, at) ==
    IF k > Len(kinds) THEN <<>>
    ELSE <<[start |-> at, end |-> at + Sec(kinds[k].dur), text |-> kinds[k].text]>>
         \o BuildSegments(kinds, k + 1, at + Sec(kinds[k].dur))

Transcripts(kindSet, maxLen) ==
    UNION {{BuildSegments(ks, 1, 0) : ks \in [1..n -> kindSet]} : n \in 0..maxLen}

DefaultHashtagCfg == [min_count |-> HashtagMinDefault, max_count |-> HashtagMaxDefault]

\* The configuration of the filter: the most highlights to return, the
\* lowest confidence to keep (thousandths of 1/3) and the highest overlap
\* ratio to accept (tenths).  A configuration that does not set them stands
\* for the defaults.
DefaultAnalysisCfg ==
    [max_highlights |-> MaxHighlights, min_confidence |-> MinConfidence,
     overlap_threshold |-> 5]

StrictAnalysisCfg ==
    [max_highlights |-> 2, min_confidence |-> 2 * MinConfidence, overlap_threshold |-> 2]

AnalysisCfgs == {DefaultAnalysisCfg, StrictAnalysisCfg}

\* no earlier run of the merge to compare with
NoFirstMerge == [done |-> FALSE, out |-> <<>>]

\* what the model may put into one entry of "highlights"
KeyQuoteChoices == { <<>>, <<{"nobody", "tells", "you"}>>, <<{"so", "funny"}>>, <<{"zzz"}>> }

RatingChoices ==
    { [engagement_score |-> 0 - 2, viral_potential |-> "medium", emotion |-> "neutral"],
      [engagement_score |-> DefaultEngagement, viral_potential |-> "medium", emotion |-> "neutral"],
      [engagement_score |-> 5, viral_potential |-> "low", emotion |-> "educational"],
      [engagement_score |-> 9, viral_potential |-> "high", emotion |-> "funny"] }

RawHighlights ==
    { [key_quotes |-> q, engagement_score |-> r.engagement_score,
       viral_potential |-> r.viral_potential, emotion |-> r.emotion, title |-> "Hook title"]
      : q \in KeyQuoteChoices, r \in RatingChoices }

\* what self.model.generate may do for one chunk
Answers ==
    { [kind |-> "raise", highlights |-> <<>>],
      [kind |-> "nojson", highlights |-> <<>>],
      [kind |-> "badjson", highlights |-> <<>>] }
    \cup { [kind |-> "json", highlights |-> hs]
           : hs \in UNION {[1..n -> RawHighlights] : n \in 0..MaxLLMHighlights} }

----------------------------------------------------------------------------
(* find_highlights *)

NoLocals ==
    /\ scored = <<>>
    /\ chunks = <<>>
    /\ chunkLog = <<>>
    /\ rawLLM = <<>>
    /\ llm = <<>>
    /\ combined = <<>>
    /\ semIdx = 0
    /\ filtered = <<>>
    /\ enriched = <<>>

Init ==
    /\ segments \in Transcripts(SegKinds, MaxSegs)
    /\ modelLoaded \in BOOLEAN
    /\ hashtagCfg = DefaultHashtagCfg
    /\ analysisCfg = DefaultAnalysisCfg
    /\ firstMerge = NoFirstMerge
    /\ pc = "start"
    /\ NoLocals
    /\ result = <<>>
    /\ outcome = "running"
    /\ errorLogged = FALSE

\* "except Exception as e: ... return []"
\* find_highlights without its try: the exception reaches the caller
ExceptPropagates == [result |-> <<>>, outcome |-> "raised", logged |-> FALSE]

ExceptHandler == [result |-> <<>>, outcome |-> "returned", logged |-> TRUE]

\* leaving find_highlights: its locals are gone
Leave(r) ==
    /\ pc' = "done"
    /\ result' = r.result
    /\ outcome' = r.outcome
    /\ errorLogged' = r.logged
    /\ scored' = <<>>
    /\ chunks' = <<>>
    /\ chunkLog' = <<>>
    /\ rawLLM' = <<>>
    /\ llm' = <<>>
    /\ combined' = <<>>
    /\ semIdx' = 0
    /\ filtered' = <<>>
    /\ enriched' = <<>>
    /\ UNCHANGED <<segments, modelLoaded, hashtagCfg, analysisCfg, firstMerge>>

\* "if not segments: return []"
NoSegments ==
    /\ pc = "start"
    /\ segments = <<>>
    /\ Leave([result |-> <<>>, outcome |-> "returned", logged |-> FALSE])

\* Step 1
Score ==
    /\ pc = "start"
    /\ segments # <<>>
    /\ scored' = ScoreSegments(segments)
    /\ pc' = "llm"
    /\ UNCHANGED <<segments, modelLoaded, hashtagCfg, analysisCfg, firstMerge, chunks, chunkLog, rawLLM, llm,
                   combined, semIdx, filtered, enriched, result, outcome, errorLogged>>

\* Step 2, analyze_content: "if not self.model: return await self._fallback_analysis"
NoModel ==
    /\ pc = "llm"
    /\ ~modelLoaded
    /\ llm' = FallbackAnalysis(segments)
    /\ pc' = "combine"
    /\ UNCHANGED <<segments, modelLoaded, hashtagCfg, analysisCfg, firstMerge, scored, chunks, chunkLog, rawLLM,
                   combined, semIdx, filtered, enriched, result, outcome, errorLogged>>

Split ==
    /\ pc = "llm"
    /\ modelLoaded
    /\ chunks' = SplitTranscript(segments)
    /\ pc' = "chunk"
    /\ UNCHANGED <<segments, modelLoaded, hashtagCfg, analysisCfg, firstMerge, scored, chunkLog, rawLLM, llm,
                   combined, semIdx, filtered, enriched, result, outcome, errorLogged>>

\* _analyze_chunk: an exception of generate or of the parser gives []
AnalyzeChunkResult(answer, segs, chunk) ==
    IF answer.kind = "raise" THEN <<>> ELSE ParseLLMResponse(answer, segs, chunk)

AnalyzeChunkFrom(answers) ==
    /\ pc = "chunk"
    /\ chunks # <<>>
    /\ \E answer \in answers :
          LET got == AnalyzeChunkResult(answer, segments, Head(chunks))
          IN /\ rawLLM' = rawLLM \o got
             /\ chunkLog' = Append(chunkLog, [kind |-> answer.kind, got |-> got])
    /\ chunks' = Tail(chunks)
    /\ UNCHANGED <<pc, segments, modelLoaded, hashtagCfg, analysisCfg, firstMerge, scored, llm,
                   combined, semIdx, filtered, enriched, result, outcome, errorLogged>>

AnalyzeChunk == AnalyzeChunkFrom(Answers)

Rank ==
    /\ pc = "chunk"
    /\ chunks = <<>>
    /\ llm' = RankHighlights(rawLLM)
    /\ pc' = "combine"
    /\ UNCHANGED <<segments, modelLoaded, hashtagCfg, analysisCfg, firstMerge, scored, chunks, chunkLog, rawLLM,
                   combined, semIdx, filtered, enriched, result, outcome, errorLogged>>

\* Step 3, _combine_analyses: the rule-based loop, then one llm highlight per step
CombineRule ==
    /\ pc = "combine"
    /\ combined' = RuleHighlights(segments, scored, 1)
    /\ semIdx' = 1
    /\ pc' = "merge"
    /\ UNCHANGED <<segments, modelLoaded, hashtagCfg, analysisCfg, firstMerge, scored, chunks, chunkLog, rawLLM,
                   llm, filtered, enriched, result, outcome, errorLogged>>

MergeStep ==
    /\ pc = "merge"
    /\ semIdx <= Len(llm)
    /\ combined' = MergeOne(combined, llm[semIdx])
    /\ semIdx' = semIdx + 1
    /\ UNCHANGED <<pc, segments, modelLoaded, hashtagCfg, analysisCfg, firstMerge, scored, chunks, chunkLog,
                   rawLLM, llm, filtered, enriched, result, outcome, errorLogged>>

MergeDone ==
    /\ pc = "merge"
    /\ semIdx > Len(llm)
    /\ pc' = "filter"
    /\ UNCHANGED <<segments, modelLoaded, hashtagCfg, analysisCfg, firstMerge, scored, chunks, chunkLog, rawLLM,
                   llm, combined, semIdx, filtered, enriched, result, outcome, errorLogged>>

\* Step 4
Filter ==
    /\ pc = "filter"
    /\ LET f == FilterHighlights(combined)
       IN IF f.raised THEN Leave(ExceptHandler)
          ELSE /\ filtered' = f.out
               /\ combined' = SortByConfidence(combined)   \* highlights.sort(...) is in place
               /\ pc' = "enrich"
               /\ UNCHANGED <<segments, modelLoaded, hashtagCfg, analysisCfg, firstMerge, scored, chunks, chunkLog,
                              rawLLM, llm, semIdx, enriched, result, outcome, errorLogged>>

\* Step 5, _enrich_highlights, one highlight per step; fails: the try body raises
EnrichStep ==
    /\ pc = "enrich"
    /\ Len(enriched) < Len(filtered)
    /\ \E fails \in BOOLEAN :
          LET i == Len(enriched) + 1
          IN enriched' = Append(enriched,
                                IF fails THEN EnrichBasic(filtered[i], i)
                                ELSE EnrichOne(segments, filtered[i], i, hashtagCfg))
    /\ UNCHANGED <<pc, segments, modelLoaded, hashtagCfg, analysisCfg, firstMerge, scored, chunks, chunkLog,
                   rawLLM, llm, combined, semIdx, filtered, result, outcome, errorLogged>>

Return ==
    /\ pc = "enrich"
    /\ Len(enriched) = Len(filtered)
    /\ Leave([result |-> enriched, outcome |-> "returned", logged |-> FALSE])

\* an exception raised by a stage and not handled inside it reaches the
\* handler of find_highlights
StageRaises ==
    /\ pc \in {"start", "llm", "chunk", "combine", "merge", "filter", "enrich"}
    /\ Leave(ExceptHandler)

Next ==
    \/ NoSegments
    \/ Score
    \/ NoModel
    \/ Split
    \/ AnalyzeChunk
    \/ Rank
    \/ CombineRule
    \/ MergeStep
    \/ MergeDone
    \/ Filter
    \/ EnrichStep
    \/ Return
    \/ StageRaises

Spec == Init /\ [][Next]_vars


----------------------------------------------------------------------------
(* Properties *)

Duration(h) == h.end_time - h.start_time

\* shared duration of the two [start, end] intervals
Shared(a, b) == Max2(0, Min2(a.end_time, b.end_time) - Max2(a.start_time, b.start_time))

\* overlap(A,B) / min(duration(A), duration(B)) <= 0.5
OverlapRatioOk(a, b) == 2 * Shared(a, b) <= Min2(Duration(a), Duration(b))

PairwiseOverlapOk(s) ==
    \A i \in 1..Len(s) : \A j \in 1..Len(s) : i # j => OverlapRatioOk(s[i], s[j])

\* C1: whatever list of merged highlights _filter_highlights is given, every
\* pair (A,B) of highlights of its output has
\* overlap(A,B) / min(duration(A), duration(B)) <= 0.5.
C1_OverlapInvariant == pc = "enrich" => PairwiseOverlapOk(filtered)

\* the span of segments available to a window: the transcript for the
\* rule-based windows and those of the fallback, the chunk for the model's
TranscriptSpan == [start_time |-> segments[1].start, end_time |-> segments[Len(segments)].end]

WindowWithinLimits(h, span) ==
    IF Duration(span) < Sec(ClipDurationMin)
    THEN h.start_time = span.start_time /\ h.end_time = span.end_time
    ELSE Sec(ClipDurationMin) <= Duration(h) /\ Duration(h) <= Sec(ClipDurationMax)

AllWithinLimits(s, span) == \A k \in 1..Len(s) : WindowWithinLimits(s[k], span)

\* the chunks of the texts drawn here are the whole transcript (one chunk)
RuleWindowsOk == (pc = "merge" /\ semIdx = 1) => AllWithinLimits(combined, TranscriptSpan)
ModelWindowsOk == pc = "chunk" => AllWithinLimits(rawLLM, TranscriptSpan)
FallbackWindowsOk == (pc = "combine" /\ ~modelLoaded) => AllWithinLimits(llm, TranscriptSpan)

\* C2: every window produced by window resolution (rule-based windows of
\* _combine_analyses, windows of _parse_llm_response, windows of the
\* fallback analysis) has minClipDuration <= end - start <= maxClipDuration,
\* unless the whole available span is shorter than minClipDuration, and
\* then the window is that span.
C2_WindowsWithinLimits == RuleWindowsOk /\ ModelWindowsOk /\ FallbackWindowsOk


----------------------------------------------------------------------------
(* _filter_highlights on its own: the list it is given is drawn from lists *)
(* of up to MaxFilterLen highlights, the k-th around second 40 * k, each   *)
(* either short (20 s) or long (90 s, reaching over both its neighbours),  *)
(* with a confidence of 0.2 or 0.5 when short and of 0.5 or 1.0 when long. *)

SlotHighlight(k, long, conf) ==
    [start_time |-> Sec(40 * k + (IF long THEN 0 - 25 ELSE 10)),
     end_time |-> Sec(40 * k + (IF long THEN 65 ELSE 30)),
     text |-> <<>>,
     confidence |-> conf,
     emotions |-> <<>>,
     hasEmotions |-> FALSE,
     source |-> "llm",
     title |-> "Hook title",
     emotion |-> "neutral",
     viral_potential |-> "medium"]

FilterVariants ==
    { <<FALSE, ConfOne \div 5>>, <<FALSE, ConfOne \div 2>>,
      <<TRUE, ConfOne \div 2>>, <<TRUE, ConfOne>> }

\* the list whose k-th highlight is of variant v[k]
FilterInput(v) == [k \in DOMAIN v |-> SlotHighlight(k, v[k][1], v[k][2])]

InitFilter ==
    /\ \E n \in 0..MaxFilterLen : \E v \in [1..n -> FilterVariants] :
          combined = FilterInput(v)
    /\ pc = "filter"
    /\ segments = <<>>
    /\ modelLoaded = FALSE
    /\ hashtagCfg = DefaultHashtagCfg
    /\ analysisCfg \in AnalysisCfgs
    /\ firstMerge = NoFirstMerge
    /\ scored = <<>>
    /\ chunks = <<>>
    /\ chunkLog = <<>>
    /\ rawLLM = <<>>
    /\ llm = <<>>
    /\ semIdx = 1
    /\ filtered = <<>>
    /\ enriched = <<>>
    /\ result = <<>>
    /\ outcome = "running"
    /\ errorLogged = FALSE

SpecFilter == InitFilter /\ [][Filter]_vars

\* C3: _filter_highlights is idempotent: run on its own output it returns
\* that output, same highlights in the same order.
C3_FilterIdempotent ==
    pc = "enrich" => FilterHighlights(filtered) = [raised |-> FALSE, out |-> filtered]

\* a run in which the second pass has something to decide: two highlights
\* of equal confidence survive although most of the first lies in the second
C3_Witness ==
    /\ pc = "enrich"
    /\ \E i \in 1..Len(filtered) : \E j \in 1..Len(filtered) :
          /\ i < j
          /\ filtered[i].confidence = filtered[j].confidence
          /\ 2 * Shared(filtered[i], filtered[j]) > Duration(filtered[i])
    /\ Len(filtered) < Len(combined)


Descending(s) == \A i \in 1..Len(s) : \A j \in 1..Len(s) :
                    i < j => s[i].confidence >= s[j].confidence

\* highlights of equal confidence stand in out in the order they have in inp
TiesKeepOrder(inp, out) ==
    \A i \in 1..Len(out) : \A j \in 1..Len(out) :
        (i < j /\ out[i].confidence = out[j].confidence)
        => \E p \in 1..Len(inp) : \E q \in 1..Len(inp) :
              p < q /\ inp[p] = out[i] /\ inp[q] = out[j]

\* C9: the output of _filter_highlights is ordered by confidence,
\* non-increasing, and two output highlights of equal confidence stand in
\* the order they had in the list the filter was given.
C9_RankedStable ==
    [][(pc = "filter" /\ pc' = "enrich")
       => (Descending(filtered') /\ TiesKeepOrder(combined, filtered'))]_vars

\* an output with two confidences and a tie among the higher ones
C9_Witness ==
    /\ pc = "enrich"
    /\ \E i \in 1..Len(filtered) : \E j \in 1..Len(filtered) :
          /\ i < j
          /\ filtered[i].confidence = filtered[j].confidence
    /\ \E i \in 1..Len(filtered) : filtered[i].confidence < filtered[1].confidence

\* C10: the output of _filter_highlights has at most 5 highlights, each of
\* confidence >= 0.3.
C10_LimitAndFloor ==
    pc = "enrich" =>
        /\ Len(filtered) <= MaxHighlights
        /\ \A i \in 1..Len(filtered) : filtered[i].confidence >= MinConfidence

\* more than 5 highlights pass the overlap test and one of the first 5 is
\* below the floor (combined is the sorted list once the filter has run)
C10_Witness ==
    /\ pc = "enrich"
    /\ Len(WalkSorted(combined, 1, <<>>).out) > MaxHighlights
    /\ Len(filtered) > 0
    /\ Len(filtered) < MaxHighlights


----------------------------------------------------------------------------
(* analyze_content with a loaded model on transcripts of several chunks:   *)
(* a filler segment fills a chunk of its own.                              *)

ChunkSegKinds ==
    { [dur |-> 10, text |-> "filler"],
      [dur |-> 20, text |-> "joke"],
      [dur |-> 35, text |-> "hook"] }

ChunkAnswers ==
    { [kind |-> "raise", highlights |-> <<>>],
      [kind |-> "nojson", highlights |-> <<>>],
      [kind |-> "badjson", highlights |-> <<>>],
      [kind |-> "json", highlights |-> <<>>],
      [kind |-> "json",
       highlights |-> << [key_quotes |-> <<>>, engagement_score |-> DefaultEngagement,
                          viral_potential |-> "medium", emotion |-> "neutral",
                          title |-> "Hook title"] >>],
      [kind |-> "json",
       highlights |-> << [key_quotes |-> <<>>, engagement_score |-> DefaultEngagement,
                          viral_potential |-> "medium", emotion |-> "neutral",
                          title |-> "Hook title"],
                         [key_quotes |-> <<>>, engagement_score |-> DefaultEngagement,
                          viral_potential |-> "low", emotion |-> "educational",
                          title |-> "Hook title"],
                         [key_quotes |-> <<>>, engagement_score |-> 9,
                          viral_potential |-> "high", emotion |-> "funny",
                          title |-> "Hook title"] >>] }

InitChunks ==
    /\ segments \in Transcripts(ChunkSegKinds, MaxSegs)
    /\ modelLoaded = TRUE
    /\ hashtagCfg = DefaultHashtagCfg
    /\ analysisCfg = DefaultAnalysisCfg
    /\ firstMerge = NoFirstMerge
    /\ pc = "start"
    /\ NoLocals
    /\ result = <<>>
    /\ outcome = "running"
    /\ errorLogged = FALSE

NextChunks ==
    \/ NoSegments
    \/ Score
    \/ Split
    \/ AnalyzeChunkFrom(ChunkAnswers)
    \/ Rank

SpecChunks == InitChunks /\ [][NextChunks]_vars

Unparseable(entry) == entry.kind \in {"nojson", "badjson"}

SomeChunkUnparseable == \E k \in 1..Len(chunkLog) : Unparseable(chunkLog[k])

\* what the chunks that parsed gave, in chunk order
RECURSIVE ParsedOnly(_, _)
ParsedOnly(log, k) ==
    IF k > Len(log) THEN <<>>
    ELSE (IF log[k].kind = "json" THEN log[k].got ELSE <<>>) \o ParsedOnly(log, k + 1)

\* C4 as stated: when the model's output cannot be parsed (no JSON object,
\* or invalid JSON), the semantic candidates handed to the merger are those
\* of the rule-based fallback analysis, and no error is raised.
C4_UnparseableGivesFallback ==
    /\ outcome # "raised"
    /\ (pc = "combine" /\ SomeChunkUnparseable) => llm = FallbackAnalysis(segments)

\* C4 amended: a chunk whose output cannot be parsed gives no candidate; the
\* candidates handed to the merger are the ranked candidates of the chunks
\* that parsed, the fallback analysis is not run, and no error is raised.
C4_UnparseableGivesNothing ==
    /\ outcome # "raised"
    /\ \A k \in 1..Len(chunkLog) : Unparseable(chunkLog[k]) => chunkLog[k].got = <<>>
    /\ (pc = "combine" /\ SomeChunkUnparseable) => llm = RankHighlights(ParsedOnly(chunkLog, 1))

\* one chunk could not be parsed, another gave a candidate, and the
\* fallback analysis would have found something in the transcript
C4_Witness ==
    /\ pc = "combine"
    /\ SomeChunkUnparseable
    /\ llm # <<>>
    /\ FallbackAnalysis(segments) # <<>>
    /\ llm # FallbackAnalysis(segments)


----------------------------------------------------------------------------
(* find_highlights as a whole *)

\* C5: find_highlights never raises to its caller: whatever stage fails, it
\* returns a list, at worst the empty one (and an error is logged); a
\* transcript without segments gives the empty list.
C5_NeverRaises ==
    /\ outcome # "raised"
    /\ pc = "done" => outcome = "returned"
    /\ errorLogged => result = <<>>
    /\ (pc = "done" /\ segments = <<>>) => result = <<>>

\* a stage failed on a transcript with segments and the caller got []
C5_Witness ==
    /\ pc = "done"
    /\ errorLogged
    /\ segments # <<>>
    /\ outcome = "returned"
    /\ result = <<>>

----------------------------------------------------------------------------
(* The merge loop of _combine_analyses *)

RuleEntries == RuleHighlights(segments, scored, 1)

SameWindow(a, b) == a.start_time = b.start_time /\ a.end_time = b.end_time

\* the entries of the merged list that are the candidate s, marked combined
Replacements(s) ==
    {j \in 1..Len(combined) :
        /\ SameWindow(combined[j], s)
        /\ combined[j].confidence = s.confidence
        /\ combined[j].source = "combined"}

\* C6 as stated: once the merge is over, for every semantic candidate s and
\* every rule-based entry r of the same moment (starts, or ends, less than
\* 10 s apart) with s of strictly higher confidence, the merged list holds
\* exactly one entry for the moment, with the start, end and confidence of s
\* and source combined, and no entry has the window and confidence of r.
C6_SemanticReplacesRule ==
    pc = "filter" =>
        \A i \in 1..Len(llm) : \A k \in 1..Len(RuleEntries) :
            (SameMoment(llm[i], RuleEntries[k])
             /\ llm[i].confidence > RuleEntries[k].confidence)
            => /\ Cardinality(Replacements(llm[i])) = 1
               /\ ~\E j \in 1..Len(combined) :
                      /\ SameWindow(combined[j], RuleEntries[k])
                      /\ combined[j].confidence = RuleEntries[k].confidence

\* index of the first entry of comb of the same moment as s, 0 if none
FirstOfSameMoment(comb, s) ==
    IF \A j \in 1..Len(comb) : ~SameMoment(s, comb[j]) THEN 0
    ELSE CHOOSE j \in 1..Len(comb) :
            SameMoment(s, comb[j]) /\ \A k \in 1..(j - 1) : ~SameMoment(s, comb[k])

\* C6 amended: when the first entry of the merged list (in insertion order)
\* that is of the same moment as the semantic candidate is a rule-based
\* entry of strictly lower confidence, merging the candidate replaces that
\* entry in place: it has the candidate's start, end and confidence and
\* source combined, no entry is added and every other entry is unchanged.
C6_FirstMatchReplaced ==
    [][(pc = "merge" /\ semIdx <= Len(llm) /\ semIdx' = semIdx + 1)
       => LET s == llm[semIdx]
              j == FirstOfSameMoment(combined, s)
          IN (j # 0 /\ combined[j].source = "rule_based"
              /\ s.confidence > combined[j].confidence)
             => /\ Len(combined') = Len(combined)
                /\ SameWindow(combined'[j], s)
                /\ combined'[j].confidence = s.confidence
                /\ combined'[j].source = "combined"
                /\ \A k \in 1..Len(combined) : k # j => combined'[k] = combined[k]]_vars

\* a candidate has replaced a rule-based entry while another rule-based
\* entry of the same moment is still there
C6_Witness ==
    /\ pc = "merge"
    /\ \E j \in 1..Len(combined) : \E k \in 1..Len(combined) :
          /\ combined[j].source = "combined"
          /\ combined[k].source = "rule_based"
          /\ SameMoment(combined[j], combined[k])
          /\ combined[j].confidence > combined[k].confidence

----------------------------------------------------------------------------
(* The Enricher and the confidences *)

NoDuplicates(s) == \A i \in 1..Len(s) : \A j \in 1..Len(s) : i # j => s[i] # s[j]

\* C7: every final highlight, also one that took the except branch of
\* _enrich_highlights, has a hashtag list without duplicates whose length
\* lies between the configured min_count and max_count.
C7_HashtagCount ==
    \A i \in 1..Len(result) :
        /\ NoDuplicates(result[i].hashtags)
        /\ hashtagCfg.min_count <= Len(result[i].hashtags)
        /\ Len(result[i].hashtags) <= hashtagCfg.max_count

ConfidenceInRange(c) == 0 <= c /\ c <= ConfOne

\* C8: every semantic candidate handed to the merger, from the model or
\* from the fallback analysis, and every final highlight has its confidence
\* in [0, 1].
C8_ConfidenceInRange ==
    /\ \A i \in 1..Len(llm) : ConfidenceInRange(llm[i].confidence)
    /\ \A i \in 1..Len(result) : ConfidenceInRange(result[i].highlight.confidence)


----------------------------------------------------------------------------
(* The filter and its configuration *)

\* the ratio the filter computes for a candidate against an accepted
\* highlight is at most the configured threshold (tenths)
WithinConfiguredOverlap(h, existing) ==
    10 * OverlapDuration(h, existing) <= analysisCfg.overlap_threshold * Duration(h)

\* C11: _filter_highlights honours the configuration: its output has at
\* most the configured number of highlights, none below the configured
\* minimum confidence, and no highlight whose overlap ratio with one
\* accepted before it is above the configured threshold.
C11_HonoursConfiguration ==
    pc = "enrich" =>
        /\ Len(filtered) <= analysisCfg.max_highlights
        /\ \A i \in 1..Len(filtered) : filtered[i].confidence >= analysisCfg.min_confidence
        /\ \A i \in 1..Len(filtered) : \A j \in 1..(i - 1) :
              WithinConfiguredOverlap(filtered[i], filtered[j])


----------------------------------------------------------------------------
(* Windows are not empty *)

AllPositive(s) == \A i \in 1..Len(s) : s[i].end_time > s[i].start_time

\* C12: every highlight at every stage has end > start: the semantic and
\* fallback windows (rawLLM, llm), the rule-derived windows and the merged
\* entries (combined), the filtered and the final highlights.
C12_EndAfterStart ==
    /\ AllPositive(rawLLM)
    /\ AllPositive(llm)
    /\ AllPositive(combined)
    /\ AllPositive(filtered)
    /\ \A i \in 1..Len(result) : result[i].highlight.end_time > result[i].highlight.start_time

\* a merged entry was updated in place from a semantic window that the
\* resolution had moved off the segment boundaries, next to a rule-based one
C12_Witness ==
    /\ pc = "filter"
    /\ modelLoaded
    /\ \E i \in 1..Len(combined) :
          /\ combined[i].source = "combined"
          /\ \A k \in 1..Len(segments) : segments[k].start # combined[i].start_time
    /\ \E i \in 1..Len(combined) : combined[i].source = "rule_based"


----------------------------------------------------------------------------
(* Degradation of the semantic analysis *)

SomeCallRaised == \E k \in 1..Len(chunkLog) : chunkLog[k].kind = "raise"

\* C13: whenever no model is loaded, or a call to the model raises, the
\* semantic candidates handed to the merger are exactly those of the
\* rule-based fallback analysis of the transcript's segments.
C13_AbsentOrErrorGivesFallback ==
    (pc = "combine" /\ (~modelLoaded \/ SomeCallRaised)) => llm = FallbackAnalysis(segments)


\* the candidate c of a chunk is among the returned ones, with its ranked
\* confidence
Returned(c, out) ==
    \E j \in 1..Len(out) :
        /\ out[j].start_time = c.start_time
        /\ out[j].end_time = c.end_time
        /\ out[j].text = c.text
        /\ out[j].confidence = RankedConfidence(c)

\* C14 as stated: a chunk whose output cannot be parsed adds no candidate,
\* and analyze_content returns every candidate gathered from the other
\* chunks.
C14_OtherChunksAllReturned ==
    [][/\ (pc = "chunk" /\ Len(chunkLog') = Len(chunkLog) + 1)
          => (Unparseable(chunkLog'[Len(chunkLog')]) => rawLLM' = rawLLM)
       /\ (pc = "chunk" /\ pc' = "combine" /\ SomeChunkUnparseable)
          => \A i \in 1..Len(rawLLM) : Returned(rawLLM[i], llm')]_vars

\* C14 amended: a chunk whose output cannot be parsed adds no candidate and
\* takes none away: the candidates gathered from the other chunks stay as
\* they are, and analyze_content returns the RankTop best of them, that is
\* every one of them when they are at most RankTop.
C14_OtherChunksStillReturned ==
    [][/\ (pc = "chunk" /\ Len(chunkLog') = Len(chunkLog) + 1)
          => LET e == chunkLog'[Len(chunkLog')]
             IN /\ Unparseable(e) => rawLLM' = rawLLM
                /\ ~Unparseable(e) => rawLLM' = rawLLM \o e.got
       /\ (pc = "chunk" /\ pc' = "combine")
          => /\ Len(llm') = Min2(Len(rawLLM), RankTop)
             /\ Len(rawLLM) <= RankTop
                => \A i \in 1..Len(rawLLM) : Returned(rawLLM[i], llm')]_vars

\* one chunk could not be parsed, the other chunks gave more than RankTop
\* candidates, and the best RankTop of them were returned
C14_Witness ==
    /\ pc = "combine"
    /\ SomeChunkUnparseable
    /\ Len(rawLLM) > RankTop
    /\ Len(llm) = RankTop


----------------------------------------------------------------------------
(* A model call that never responds.  _analyze_chunk calls                 *)
(* self.model.generate synchronously and without a timeout: while the call *)
(* does not return nothing else of find_highlights runs.                   *)

GenerateNeverReturns ==
    /\ pc = "chunk"
    /\ chunks # <<>>
    /\ pc' = "generate"
    /\ UNCHANGED <<segments, modelLoaded, hashtagCfg, analysisCfg, firstMerge, scored,
                   chunks, chunkLog, rawLLM, llm, combined, semIdx, filtered, enriched,
                   result, outcome, errorLogged>>

NextHang ==
    \/ Next
    \/ GenerateNeverReturns

\* every step of the coroutine that can be taken is taken
SpecHang == Init /\ [][NextHang]_vars /\ WF_vars(NextHang)

\* C15: find_highlights eventually returns for every input, also when the
\* model call for some chunk never responds.
C15_EventuallyReturns == <>(pc = "done")


----------------------------------------------------------------------------
(* The Enricher's loop *)

IsBasic(e) == e.title = "Viral Moment i" /\ e.hashtags = <<"#viral", "#trending">>

IsFull(e) ==
    /\ e.title = GenerateTitle(segments, e.highlight)
    /\ e.hashtags = GenerateHashtags(segments, e.highlight, hashtagCfg)
    /\ e.emotion = GetPrimaryEmotion(e.highlight.emotions)

\* the first Len(out) highlights of inp, enriched one for one and in order
EnrichedInOrder(out, inp) ==
    /\ Len(out) <= Len(inp)
    /\ \A i \in 1..Len(out) :
          /\ out[i].highlight = inp[i]
          /\ out[i].clip_number = i
          /\ out[i].engagement_score = inp[i].confidence
          /\ IsBasic(out[i]) \/ IsFull(out[i])

\* C16: _enrich_highlights returns one final highlight per input highlight,
\* in the same order, with clip_number the 1-based position; a highlight
\* whose enrichment fails gets the basic version, and the ones before and
\* after it are not touched by that.
C16_OnePerHighlight ==
    [][pc = "enrich"
       => /\ pc' = "enrich"
             => /\ EnrichedInOrder(enriched', filtered)
                /\ \A i \in 1..Len(enriched) : enriched'[i] = enriched[i]
          /\ (pc' = "done" /\ ~errorLogged')
             => /\ result' = enriched
                /\ Len(result') = Len(filtered)
                /\ EnrichedInOrder(result', filtered)]_vars

\* the enrichment of the first of several highlights failed and that of a
\* later one did not
C16_Witness ==
    /\ pc = "done"
    /\ Len(result) >= 2
    /\ IsBasic(result[1])
    /\ ~IsBasic(result[Len(result)])
    /\ result[Len(result)].clip_number = Len(result)


\* C17: a final highlight made from a highlight that carries a title
\* supplied by the model (a semantic or combined highlight) has that title.
C17_AnalyzerTitleKept ==
    \A i \in 1..Len(result) :
        result[i].highlight.title # "" => result[i].title = result[i].highlight.title


----------------------------------------------------------------------------
(* Rule-based windows of segments that need no resolution *)

ClearsThreshold(sc) == sc.score >= MinEngagementScore

InBounds(sc) == Sec(ClipDurationMin) <= sc.duration /\ sc.duration <= Sec(ClipDurationMax)

\* position, among the rule-based highlights, of the one made for segment k
RulePosition(sco, k) == Cardinality({j \in 1..k : ClearsThreshold(sco[j])})

\* segments [0,5], [5,40], [40,45], of which only the middle one scores
ScenarioSegments ==
    << [start |-> Sec(0), end |-> Sec(5), text |-> "intro"],
       [start |-> Sec(5), end |-> Sec(40), text |-> "hook"],
       [start |-> Sec(40), end |-> Sec(45), text |-> "intro"] >>

\* C18: a segment that clears the engagement threshold and whose duration
\* lies in [ClipDurationMin, ClipDurationMax] gives a rule-based highlight
\* whose window is exactly the segment's; and the transcript [0,5], [5,40],
\* [40,45] with only the middle segment scoring and no semantic candidate
\* gives one final highlight, covering [5,40].
C18_InBoundsSegmentKept ==
    [][/\ (pc = "combine" /\ pc' = "merge")
          => \A k \in 1..Len(scored) :
                (ClearsThreshold(scored[k]) /\ InBounds(scored[k]))
                => LET h == combined'[RulePosition(scored, k)]
                   IN /\ h.start_time = segments[k].start
                      /\ h.end_time = segments[k].end
                      /\ h.source = "rule_based"
       /\ (pc = "enrich" /\ pc' = "done" /\ ~errorLogged'
           /\ segments = ScenarioSegments /\ llm = <<>>)
          => /\ Len(result') = 1
             /\ result'[1].highlight.start_time = Sec(5)
             /\ result'[1].highlight.end_time = Sec(40)]_vars

\* the scenario has run to its end
C18_Witness ==
    /\ pc = "done"
    /\ segments = ScenarioSegments
    /\ ~modelLoaded
    /\ Len(result) = 1
    /\ result[1].highlight.source = "rule_based"
    /\ result[1].highlight.end_time - result[1].highlight.start_time = Sec(35)


----------------------------------------------------------------------------
(* Segments in which the Scorer finds nothing *)

\* no emotion keyword, no hook pattern and no boost keyword in the text
Plain(seg) ==
    /\ Text(seg).hooks = 0
    /\ Text(seg).boosts = 0
    /\ \A k \in 1..Len(Emotions) : Text(seg).kw[Emotions[k]] = 0

\* C19: a segment whose text matches no emotion keyword, no hook pattern
\* and no boost keyword has score 0, whatever its word count and position,
\* and no rule-based highlight is made for it: there are at most as many
\* rule-based highlights as segments that match something.
C19_PlainScoresZero ==
    scored # <<>> =>
        /\ \A k \in 1..Len(scored) : Plain(segments[k]) => scored[k].score = 0
        /\ Len(RuleEntries) <= Cardinality({k \in 1..Len(segments) : ~Plain(segments[k])})

\* a plain segment opens the transcript, where scores are scaled up, and
\* another segment has given a rule-based highlight
C19_Witness ==
    /\ pc = "merge"
    /\ Len(segments) >= 2
    /\ Plain(segments[1])
    /\ Plain(segments[Len(segments)])
    /\ scored[1].score = 0
    /\ Len(combined) = 1


----------------------------------------------------------------------------
(* _combine_analyses run twice on the same scored segments and the same    *)
(* semantic candidates: the output of the first run is set aside and the   *)
(* merge starts again from equal inputs.                                   *)

MergeAgain ==
    /\ pc = "filter"
    /\ ~firstMerge.done
    /\ firstMerge' = [done |-> TRUE, out |-> combined]
    /\ combined' = <<>>
    /\ semIdx' = 0
    /\ pc' = "combine"
    /\ UNCHANGED <<segments, modelLoaded, hashtagCfg, analysisCfg, scored, chunks, chunkLog,
                   rawLLM, llm, filtered, enriched, result, outcome, errorLogged>>

NextMergeTwice ==
    \/ NoSegments
    \/ Score
    \/ NoModel
    \/ Split
    \/ AnalyzeChunk
    \/ Rank
    \/ CombineRule
    \/ MergeStep
    \/ MergeDone
    \/ MergeAgain

SpecMergeTwice == Init /\ [][NextMergeTwice]_vars

----------------------------------------------------------------------------
(* The rule-based loop of _combine_analyses on transcripts of short        *)
(* segments, one segment longer than those of the whole pipeline: a short  *)
(* segment that scores has neighbours on both sides and needs more than    *)
(* one of them.                                                            *)

RuleSegKinds ==
    { [dur |-> 5,  text |-> "intro"],
      [dur |-> 5,  text |-> "hook"],
      [dur |-> 20, text |-> "joke"] }

InitRule ==
    /\ segments \in Transcripts(RuleSegKinds, MaxSegs + 1)
    /\ modelLoaded = FALSE
    /\ hashtagCfg = DefaultHashtagCfg
    /\ analysisCfg = DefaultAnalysisCfg
    /\ firstMerge = NoFirstMerge
    /\ pc = "start"
    /\ NoLocals
    /\ result = <<>>
    /\ outcome = "running"
    /\ errorLogged = FALSE

NextRule ==
    \/ NoSegments
    \/ Score
    \/ NoModel
    \/ CombineRule

SpecRule == InitRule /\ [][NextRule]_vars

\* index of the segment that starts (ends) at time t
SegStartingAt(t) == CHOOSE k \in 1..Len(segments) : segments[k].start = t
SegEndingAt(t) == CHOOSE k \in 1..Len(segments) : segments[k].end = t

\* growth around segment k that alternates takes no second segment after k
\* while a segment before k is left out
AlternatedAround(k, s, e) == (e >= k + 2 /\ k > 1) => s < k

\* the rule-based highlight made for the scored segment k
RuleEntryOf(k) == combined[RulePosition(scored, k)]

\* C21: the growth of a rule-derived candidate adds neighbouring segments
\* one at a time, alternating forward and backward: a window that reaches
\* two or more segments past its segment also reaches back before it when
\* there is a segment before it.
C21_GrowthAlternates ==
    (pc = "merge" /\ semIdx = 1) =>
        \A k \in 1..Len(scored) :
            ClearsThreshold(scored[k])
            => AlternatedAround(k, SegStartingAt(RuleEntryOf(k).start_time),
                                   SegEndingAt(RuleEntryOf(k).end_time))


----------------------------------------------------------------------------
(* Window resolution of the semantic candidates *)

\* the span of the segments a candidate was matched to, before resolution
MatchedStart(h) == segments[h.text[1]].start
MatchedEnd(h) == segments[h.text[Len(h.text)]].end

ResolvedAsSpecified(h, chunk) ==
    LET a == MatchedStart(h)
        b == MatchedEnd(h)
        d == b - a
        deficit == Sec(ClipDurationMin) - d
        excess == d - Sec(ClipDurationMax)
    IN /\ chunk.start_time <= h.start_time
       /\ h.end_time <= chunk.end_time
       /\ d < Sec(ClipDurationMin)
          => /\ 2 * h.start_time = Max2(2 * chunk.start_time, 2 * a - deficit)
             /\ 2 * h.end_time = Min2(2 * chunk.end_time, 2 * b + deficit)
             /\ (2 * chunk.start_time <= 2 * a - deficit
                 /\ 2 * b + deficit <= 2 * chunk.end_time)
                => Duration(h) = Sec(ClipDurationMin)
       /\ d > Sec(ClipDurationMax)
          => /\ 2 * h.start_time = 2 * a + excess
             /\ 2 * h.end_time = 2 * b - excess
             /\ Duration(h) = Sec(ClipDurationMax)
       /\ (Sec(ClipDurationMin) <= d /\ d <= Sec(ClipDurationMax))
          => h.start_time = a /\ h.end_time = b

\* C22: the window of a semantic candidate lies inside its chunk; a matched
\* span shorter than ClipDurationMin is moved outward by half the deficit on
\* each side, clamped to the chunk, and is exactly ClipDurationMin long when
\* nothing is clamped; a span longer than ClipDurationMax is moved inward by
\* half the excess on each side and is exactly ClipDurationMax long; any
\* other span is left as it is.
C22_SemanticWindowResolved ==
    \A k \in 1..Len(chunkLog) : \A i \in 1..Len(chunkLog[k].got) :
        ResolvedAsSpecified(chunkLog[k].got[i], SplitTranscript(segments)[k])

\* a short span was grown on both sides, off the segment boundaries, with
\* nothing clamped
C22_Witness ==
    /\ pc = "chunk"
    /\ \E i \in 1..Len(rawLLM) :
          /\ MatchedEnd(rawLLM[i]) - MatchedStart(rawLLM[i]) < Sec(ClipDurationMin)
          /\ rawLLM[i].start_time < MatchedStart(rawLLM[i])
          /\ rawLLM[i].end_time > MatchedEnd(rawLLM[i])
          /\ Duration(rawLLM[i]) = Sec(ClipDurationMin)


----------------------------------------------------------------------------
(* The source tags of the merge *)

\* The merge when no model is loaded: the semantic candidates are those of
\* the fallback analysis, in segment order, up to FallbackTop of them.  The
\* questions are segments in which the fallback analysis finds something
\* and the Scorer nothing.  The transcripts are one segment longer than
\* those of the whole pipeline, so that a candidate can lie apart from
\* every rule-based entry.
FallbackSegKinds ==
    { [dur |-> 10, text |-> "ask"],
      [dur |-> 10, text |-> "askme"],
      [dur |-> 20, text |-> "joke"],
      [dur |-> 35, text |-> "hook"],
      [dur |-> 70, text |-> "max"] }

InitFallback ==
    /\ segments \in Transcripts(FallbackSegKinds, MaxSegs + 1)
    /\ modelLoaded = FALSE
    /\ hashtagCfg = DefaultHashtagCfg
    /\ analysisCfg = DefaultAnalysisCfg
    /\ firstMerge = NoFirstMerge
    /\ pc = "start"
    /\ NoLocals
    /\ result = <<>>
    /\ outcome = "running"
    /\ errorLogged = FALSE

NextFallback ==
    \/ NoSegments
    \/ Score
    \/ NoModel
    \/ CombineRule
    \/ MergeStep
    \/ MergeDone

SpecFallback == InitFallback /\ [][NextFallback]_vars

\* C23: in the merge an entry becomes source=combined exactly when a
\* semantic candidate of strictly higher confidence replaces a rule-based
\* entry; a semantic candidate that wins over an entry admitted earlier as
\* semantic does not make it source=combined, and an admitted candidate is
\* tagged as semantic.
C23_CombinedOnlyOverRule ==
    [][(pc = "merge" /\ semIdx <= Len(llm) /\ semIdx' = semIdx + 1)
       => LET s == llm[semIdx]
              j == FirstOfSameMoment(combined, s)
          IN /\ \A k \in 1..Len(combined) :
                   /\ combined[k].source = "llm" => combined'[k].source # "combined"
                   /\ (combined[k].source = "rule_based" /\ combined'[k].source = "combined")
                      => (k = j /\ s.confidence > combined[k].confidence)
             /\ (j # 0 /\ combined[j].source = "rule_based"
                 /\ s.confidence > combined[j].confidence)
                => combined'[j].source = "combined"
             /\ j = 0 => combined'[Len(combined')].source = "llm"]_vars


\* no entry of comb is the candidate s
NotIn(comb, s) ==
    \A j \in 1..Len(comb) : ~(SameWindow(comb[j], s) /\ comb[j].confidence = s.confidence)

\* C24: when the first entry of the merged list that is of the same moment
\* as a semantic candidate has a confidence equal to or higher than the
\* candidate's, the merge step changes nothing: that entry keeps its window,
\* confidence and source, the candidate is dropped, and no later entry is
\* compared with it or changed by it.
C24_LoserDiscarded ==
    [][(pc = "merge" /\ semIdx <= Len(llm) /\ semIdx' = semIdx + 1)
       => LET s == llm[semIdx]
              j == FirstOfSameMoment(combined, s)
          IN (j # 0 /\ s.confidence <= combined[j].confidence)
             => combined' = combined]_vars

\* the candidate merged last met an entry of equal confidence first and was
\* dropped, although a later entry of the same moment has a lower confidence
C24_Witness ==
    /\ pc = "merge"
    /\ semIdx >= 2
    /\ LET s == llm[semIdx - 1]
       IN /\ NotIn(combined, s)
          /\ \E j \in 1..Len(combined) : \E k \in 1..Len(combined) :
                /\ j = FirstOfSameMoment(combined, s)
                /\ j < k
                /\ s.confidence = combined[j].confidence
                /\ SameMoment(s, combined[k])
                /\ s.confidence > combined[k].confidence
                /\ combined[k].source = "rule_based"


----------------------------------------------------------------------------
(* The position bonus of the Scorer *)

\* the score of a segment before the position bonus, in hundredths of a
\* thousandth
UnscaledScore(seg) ==
    (SeqSum([k \in 1..Len(Emotions) |-> Text(seg).kw[Emotions[k]] * EmotionWeight])
     + Text(seg).hooks * HookWeight + Text(seg).boosts * BoostWeight)
    * LengthFactor(Text(seg).nwords)

\* the factor, in tenths, for the k-th of n segments: 1.2 in the first 10%,
\* 1.1 in the last 10%, to which the final segment always belongs
BonusWithFinalSegment(k, n) ==
    IF 10 * (k - 1) < n THEN 12
    ELSE IF 10 * (k - 1) > 9 * n \/ k = n THEN 11
    ELSE 10

\* C25: for a transcript of n >= 1 segments the score of a segment is
\* multiplied by 1.2 when it is in the first 10% by index and by 1.1 when it
\* is in the last 10%, and the final segment always gets the factor 1.1
\* unless it is also in the first 10%.
C25_FinalSegmentBonus ==
    \A k \in 1..Len(scored) :
        100 * scored[k].score
            = UnscaledScore(segments[k]) * BonusWithFinalSegment(k, Len(segments))


----------------------------------------------------------------------------
(* analyze_content when the model answers, for every chunk, with one       *)
(* candidate whose key quotes are in no segment: no segment contains the   *)
(* quote and none shares a word with it.                                   *)

UnmatchedAnswers ==
    { [kind |-> "json",
       highlights |-> << [key_quotes |-> <<{"zzz"}>>,
                          engagement_score |-> r.engagement_score,
                          viral_potential |-> r.viral_potential,
                          emotion |-> r.emotion,
                          title |-> "Hook title"] >>]
      : r \in RatingChoices }

InitQuotes ==
    /\ segments \in Transcripts(SegKinds, MaxSegs)
    /\ modelLoaded = TRUE
    /\ hashtagCfg = DefaultHashtagCfg
    /\ analysisCfg = DefaultAnalysisCfg
    /\ firstMerge = NoFirstMerge
    /\ pc = "start"
    /\ NoLocals
    /\ result = <<>>
    /\ outcome = "running"
    /\ errorLogged = FALSE

NextQuotes ==
    \/ NoSegments
    \/ Score
    \/ Split
    \/ AnalyzeChunkFrom(UnmatchedAnswers)
    \/ Rank

SpecQuotes == InitQuotes /\ [][NextQuotes]_vars

\* C26: a parsed candidate whose key quotes match no segment of the chunk
\* is still resolved to a window (the segments of highest token overlap, or
\* else the first three segments of the chunk) and is never dropped: every
\* answer holding one such candidate gives one semantic candidate.
C26_UnmatchedStillResolved ==
    \A k \in 1..Len(chunkLog) :
        chunkLog[k].kind = "json" => Len(chunkLog[k].got) = 1


----------------------------------------------------------------------------
(* Rule-derived windows and the segments they were made for *)

\* C27: every rule-derived highlight window built in _combine_analyses
\* contains the high-scoring segment it was made for: after growth and
\* trimming, window.start <= segment.start and segment.end <= window.end.
C27_WindowContainsSegment ==
    (pc = "merge" /\ semIdx = 1) =>
        \A k \in 1..Len(scored) :
            ClearsThreshold(scored[k])
            => /\ RuleEntryOf(k).start_time <= segments[k].start
               /\ segments[k].end <= RuleEntryOf(k).end_time


----------------------------------------------------------------------------
(* What the merge keeps *)

Confidences(s) == {s[i].confidence : i \in 1..Len(s)}

MaxOf(S) == CHOOSE m \in S : \A x \in S : x <= m

\* C28: while the merge processes the semantic candidates no entry is
\* removed or moved and no entry's confidence decreases: the list starts
\* with one entry per scored segment that clears the threshold, a step adds
\* one entry exactly when its candidate is of no entry's moment, and changes
\* at most the first entry of the candidate's moment, to the candidate and
\* only upward; so the merged list has as many entries as threshold-clearing
\* segments plus unmatched candidates, and its highest confidence is the
\* highest confidence of all rule-based and semantic candidates.
C28_MergeKeepsEntries ==
    [][/\ (pc = "combine" /\ pc' = "merge")
          => Len(combined') = Cardinality({k \in 1..Len(scored) : ClearsThreshold(scored[k])})
       /\ (pc = "merge" /\ semIdx <= Len(llm) /\ semIdx' = semIdx + 1)
          => LET s == llm[semIdx]
                 j == FirstOfSameMoment(combined, s)
             IN /\ Len(combined') = Len(combined) + (IF j = 0 THEN 1 ELSE 0)
                /\ \A k \in 1..Len(combined) :
                      /\ combined'[k].confidence >= combined[k].confidence
                      /\ combined'[k] # combined[k]
                         => (k = j /\ SameWindow(combined'[k], s)
                             /\ combined'[k].confidence = s.confidence)
       /\ (pc = "merge" /\ pc' = "filter")
          => /\ Len(combined) >= Len(RuleEntries)
             /\ Len(combined) <= Len(RuleEntries) + Len(llm)
             /\ combined = <<>> <=> (RuleEntries = <<>> /\ llm = <<>>)
             /\ combined # <<>>
                => MaxOf(Confidences(combined))
                   = MaxOf(Confidences(RuleEntries) \cup Confidences(llm))]_vars

\* the merge is over: one candidate has replaced a rule-based entry, one
\* was admitted and one was dropped
C28_Witness ==
    /\ pc = "filter"
    /\ \E k \in 1..Len(RuleEntries) : combined[k].source = "combined"
    /\ Len(combined) > Len(RuleEntries)
    /\ Len(combined) < Len(RuleEntries) + Len(llm)


----------------------------------------------------------------------------
(* What the filter returns and what it leaves out.  Once the filter has    *)
(* run, combined is the merged list in the order the filter walked it.     *)

\* the highlights that passed the overlap test, before the cut to
\* MaxHighlights and the floor
AcceptedInWalk == WalkSorted(combined, 1, <<>>).out

PositionIn(s, h) == CHOOSE p \in 1..Len(s) : s[p] = h

\* h, the i-th highlight walked, overlaps a highlight accepted before it by
\* more than half of its own duration
OverlapsEarlierAccepted(i) ==
    \E p \in 1..(i - 1) :
        /\ combined[p] \in SeqToSet(AcceptedInWalk)
        /\ 2 * Shared(combined[i], combined[p]) > Duration(combined[i])

BeyondLimit(i) ==
    /\ combined[i] \in SeqToSet(AcceptedInWalk)
    /\ PositionIn(AcceptedInWalk, combined[i]) > MaxHighlights

\* C29: if some merged highlight has confidence >= 0.3, the output of
\* _filter_highlights is not empty and its first highlight has the highest
\* confidence of all merged highlights; and a merged highlight is missing
\* from the output only if it overlaps a highlight accepted before it beyond
\* the threshold, or is beyond the first 5 accepted, or is below 0.3.
C29_BestKeptOthersAccounted ==
    pc = "enrich" =>
        /\ (\E i \in 1..Len(combined) : combined[i].confidence >= MinConfidence)
           => /\ filtered # <<>>
              /\ filtered[1].confidence = MaxOf(Confidences(combined))
        /\ \A i \in 1..Len(combined) :
              combined[i] \notin SeqToSet(filtered)
              => \/ OverlapsEarlierAccepted(i)
                 \/ BeyondLimit(i)
                 \/ combined[i].confidence < MinConfidence

\* an output that starts with the best highlight and leaves out one
\* highlight for its overlap alone and another for its confidence alone
C29_Witness ==
    /\ pc = "enrich"
    /\ filtered # <<>>
    /\ filtered[1].confidence > MinConfidence
    /\ \E i \in 1..Len(combined) :
          /\ OverlapsEarlierAccepted(i)
          /\ combined[i].confidence >= MinConfidence
    /\ \E i \in 1..Len(combined) :
          /\ combined[i] \notin SeqToSet(filtered)
          /\ combined[i].confidence < MinConfidence
          /\ ~OverlapsEarlierAccepted(i)
          /\ ~BeyondLimit(i)


----------------------------------------------------------------------------
(* The chunks of _split_transcript.  A chunk holds its segments by index.  *)

RECURSIVE ConcatSegs(_, _)
ConcatSegs(cs, k) == IF k > Len(cs) THEN <<>> ELSE cs[k].segs \o ConcatSegs(cs, k + 1)

\* C30: chunking partitions the transcript: the segment lists of the chunks
\* returned by _split_transcript, concatenated in chunk order, are the input
\* segment sequence, every segment in exactly one chunk, and each chunk's
\* start_time and end_time are its first segment's start and its last
\* segment's end.
C30_ChunksPartition ==
    (pc = "chunk" /\ chunkLog = <<>>) =>
        /\ ConcatSegs(chunks, 1) = Range(1, Len(segments))
        /\ \A c \in 1..Len(chunks) :
              /\ chunks[c].segs # <<>>
              /\ chunks[c].start_time = segments[chunks[c].segs[1]].start
              /\ chunks[c].end_time = segments[chunks[c].segs[Len(chunks[c].segs)]].end

\* a transcript split into several chunks, one of which starts with the
\* text carried over from the chunk before it and holds several segments
C30_Witness ==
    /\ pc = "chunk"
    /\ chunkLog = <<>>
    /\ Len(chunks) >= 2
    /\ \E c \in 2..Len(chunks) :
          /\ Len(chunks[c].segs) >= 2
          /\ chunks[c].chars > SeqSum([i \in 1..Len(chunks[c].segs) |->
                                          1 + Text(segments[chunks[c].segs[i]]).chars])


====
